---- MODULE Spec2Model ----
(***************************************************************************)
(* A model of sapp's BulkSaver (src/sapp/bulk_saver.py): the accumulator   *)
(* of newly created records (add, add_all), and save_all with its helper   *)
(* _save, followed call by call through the store: make_session, reserve,  *)
(* prepare, bulk_insert_mappings, commit and the exit of each `with`.       *)
(*                                                                         *)
(* A record is [model, id, keys]: model is item.model's name, id tells     *)
(* the records apart, keys is the list of column names of the row that     *)
(* the record is turned into (column names are numbered, and lists of      *)
(* them compare as Python lists do).                                       *)
(***************************************************************************)
EXTENDS Integers, Sequences, FiniteSets, Bags

\* ---------------------------------------------------------------- bounds
\* Records created over a whole behaviour (their ids are 1..MaxItems).
MaxItems == 3
\* BulkSaver.BATCH_SIZE (bulk_saver.py:53) is 30000; the model scales it down.
BATCH_SIZE == 2

\* ------------------------------------------------------------- constants
SAVING_CLASSES_ORDER ==
    << "SharedText", "Issue", "IssueInstanceFixInfo", "IssueInstance",
       "IssueInstanceSharedTextAssoc", "TraceFrame",
       "IssueInstanceTraceFrameAssoc", "TraceFrameAnnotation",
       "TraceFrameLeafAssoc", "TraceFrameAnnotationTraceFrameAssoc",
       "Feature", "IssueInstanceFeatureAssoc" >>

Range(s) == {s[i] : i \in 1..Len(s)}

SavingClasses == Range(SAVING_CLASSES_ORDER)

\* Position of a class in SAVING_CLASSES_ORDER.
OrderIndex ==
    [c \in SavingClasses |->
        CHOOSE i \in 1..Len(SAVING_CLASSES_ORDER) : SAVING_CLASSES_ORDER[i] = c]

\* A model class that is not in SAVING_CLASSES_ORDER.
OtherClass == "Run"

\* The classes of the records the callers create.
InputClasses == {"SharedText", "Issue", OtherClass}

\* The key lists (list(k.keys())) that the rows of the records can have.
KeyLists == {<<1, 2>>, <<2>>}

\* ------------------------------------------------------- pure functions
Reverse(s) == [i \in 1..Len(s) |-> s[Len(s) + 1 - i]]

\* Python's list comparison a < b on lists of column names.
RECURSIVE ListLess(_, _)
ListLess(a, b) ==
    IF b = <<>> THEN FALSE
    ELSE IF a = <<>> THEN TRUE
    ELSE IF Head(a) < Head(b) THEN TRUE
    ELSE IF Head(b) < Head(a) THEN FALSE
    ELSE ListLess(Tail(a), Tail(b))

\* One step of a stable sort: r goes after every element not greater than it.
RECURSIVE InsertByKeys(_, _)
InsertByKeys(r, s) ==
    IF s = <<>> THEN <<r>>
    ELSE IF ListLess(r.keys, Head(s).keys) THEN <<r>> \o s
    ELSE <<Head(s)>> \o InsertByKeys(r, Tail(s))

RECURSIVE SortFrom(_, _)
SortFrom(s, acc) ==
    IF s = <<>> THEN acc ELSE SortFrom(Tail(s), InsertByKeys(Head(s), acc))

\* A _save that does not sort.
UnsortedByKeys(s) == s

\* sorted(rows, key=lambda k: list(k.keys())): stable, ascending.
SortedByKeys(s) == SortFrom(s, <<>>)

\* A consume that reads lst[-1], lst[-2], ... without popping.
ConsumeKeepsList(lst) == [yielded |-> Reverse(lst), rest |-> lst]

\* A consume whose loop stops at len(lst) > 1.
ConsumeStopsEarly(lst) ==
    IF lst = <<>> THEN [yielded |-> <<>>, rest |-> <<>>]
    ELSE [yielded |-> Reverse(Tail(lst)), rest |-> <<Head(lst)>>]

\* consume(lst): yields the elements from the last to the first, popping each.
Consume(lst) == [yielded |-> Reverse(lst), rest |-> <<>>]

\* iterutil.split_every(n, iterable): pieces of n elements, the last one shorter.
RECURSIVE split_every(_, _)
split_every(n, s) ==
    IF s = <<>> THEN <<>>
    ELSE IF Len(s) <= n THEN <<s>>
    ELSE <<SubSeq(s, 1, n)>> \o split_every(n, SubSeq(s, n + 1, Len(s)))

\* A _save that splits at BATCH_SIZE + 1.
ChunksTooLarge(items) == split_every(BATCH_SIZE + 1, items)

\* _save: split_every(self.BATCH_SIZE, items)
Chunks(items) == split_every(BATCH_SIZE, items)

\* The records of s at the positions in keep, in order.
RECURSIVE Select(_, _, _)
Select(s, keep, i) ==
    IF i > Len(s) THEN <<>>
    ELSE (IF i \in keep THEN <<s[i]>> ELSE <<>>) \o Select(s, keep, i + 1)

\* What prepare can keep of the n records it reads: any of them.
KeepSets(n) == SUBSET (1..n)

\* cls.prepare(database, pk_gen, iterator): reads the whole iterator and yields
\* the row of each record it keeps (a merge may leave records out).
Prepare(its, keep) ==
    LET kept == Select(its, keep, 1)
    IN  [i \in 1..Len(kept) |-> [id |-> kept[i].id, keys |-> kept[i].keys]]

\* ---------------------------------------------------------------- state
VARIABLES
    saving,          \* self.saving: class name -> list of records
    nextId,          \* id of the next record the callers create
    pc,              \* where the caller / save_all stands
    call,            \* the last call made on the BulkSaver: the method, the length
                     \* of its argument and the class of the argument's first record
    before,          \* self.saving when that call was made
    raised,          \* the exception the last add / add_all call ended with
    prevDone,        \* this save_all directly follows one that returned normally
    saving_classes,  \* save_all's local list of classes to save
    reserved,        \* the primary_key_generator.reserve calls of this save_all
    idx,             \* save_all's loop: classes handed to _save so far
    chunks,          \* _save's loop: the groups still to insert
    session,         \* the open session and the rows inserted in it
    db,              \* the rows committed to the store
    log,             \* the store calls of the last save_all, in order
    oneToOne,        \* every prepare of this save_all kept all its records
    lost             \* ids of records taken from the accumulator and never committed

vars == << saving, nextId, pc, call, before, raised, prevDone,
           saving_classes, reserved, idx, chunks, session, db, log,
           oneToOne, lost >>

NoSession == [open |-> FALSE, rows |-> <<>>]

Event(op, c, rows, ok) == [op |-> op, cls |-> c, rows |-> rows, ok |-> ok]

Call(op, items) ==
    [op |-> op, n |-> Len(items),
     first |-> IF items = <<>> THEN "-" ELSE items[1].model]

Idle == pc \in {"idle", "done", "failed"}

\* __init__
Init ==
    /\ saving = [c \in SavingClasses |-> <<>>]
    /\ nextId = 1
    /\ pc = "idle"
    /\ call = Call("init", <<>>)
    /\ before = [c \in SavingClasses |-> <<>>]
    /\ raised = "none"
    /\ prevDone = FALSE
    /\ saving_classes = <<>>
    /\ reserved = <<>>
    /\ idx = 0
    /\ chunks = <<>>
    /\ session = NoSession
    /\ db = EmptyBag
    /\ log = <<>>
    /\ oneToOne = TRUE
    /\ lost = {}

\* What a call of add or add_all leaves of the last save_all: its locals and
\* the record of its store calls are gone, the store is as it was.
ForgetSaveAll ==
    /\ prevDone' = FALSE
    /\ saving_classes' = <<>>
    /\ reserved' = <<>>
    /\ idx' = 0
    /\ chunks' = <<>>
    /\ log' = <<>>
    /\ oneToOne' = TRUE
    /\ UNCHANGED << session, db, lost >>

\* -------------------------------------------------------- add / add_all
\* add(item)
Add ==
    /\ Idle
    /\ nextId <= MaxItems
    /\ \E m \in InputClasses, k \in KeyLists :
         LET item == [model |-> m, id |-> nextId, keys |-> k]
         IN  /\ call' = Call("add", <<item>>)
             /\ IF item.model \in SavingClasses
                THEN /\ saving' = [saving EXCEPT ![item.model] = Append(@, item)]
                     /\ raised' = "none"
                ELSE /\ saving' = saving
                     /\ raised' = "AssertionError"
    /\ before' = saving
    /\ nextId' = nextId + 1
    /\ pc' = "idle"
    /\ ForgetSaveAll

\* The lists of n records with the ids from..from+n-1.
ItemLists(from, n) ==
    {[i \in 1..n |-> [model |-> ms[i], id |-> from + i - 1, keys |-> ks[i]]] :
        ms \in [1..n -> InputClasses], ks \in [1..n -> KeyLists]}

\* An add_all without `if items:`.
AddAllRaisesOnEmpty(items) ==
    \/ items = <<>>
    \/ items[1].model \notin SavingClasses

\* add_all's assertion fails.
AddAllRaises(items) ==
    /\ items # <<>>
    /\ items[1].model \notin SavingClasses

\* add_all(items)
AddAll ==
    /\ Idle
    /\ \E n \in 0..MaxItems :
         /\ nextId + n <= MaxItems + 1
         /\ nextId' = nextId + n
         /\ \E items \in ItemLists(nextId, n) :
              /\ call' = Call("add_all", items)
              /\ IF AddAllRaises(items)
                 THEN /\ saving' = saving
                      /\ raised' = "AssertionError"
                 ELSE /\ raised' = "none"
                      /\ IF items # <<>>
                         THEN saving' = [saving EXCEPT ![items[1].model] = @ \o items]
                         ELSE saving' = saving
    /\ before' = saving
    /\ pc' = "idle"
    /\ ForgetSaveAll

\* dump_stats(): one "<class>: <count>" line per class, in order.
dump_stats ==
    [i \in 1..Len(SAVING_CLASSES_ORDER) |->
        <<SAVING_CLASSES_ORDER[i], Len(saving[SAVING_CLASSES_ORDER[i]])>>]

\* ------------------------------------------------------------- save_all
\* A save_all that walks SAVING_CLASSES_ORDER backwards.
ClassesInReverse(sv) ==
    Reverse(SelectSeq(SAVING_CLASSES_ORDER, LAMBDA c : Len(sv[c]) # 0))

\* A save_all that does not filter the classes.
EveryClass(sv) == SAVING_CLASSES_ORDER

\* save_all: saving_classes, the classes with records, in saving order.
NonEmptyClasses(sv) == SelectSeq(SAVING_CLASSES_ORDER, LAMBDA c : Len(sv[c]) # 0)

\* A save_all that counts the classes instead of the records.
ItemCountsOfClasses(sv, classes) == [c \in Range(classes) |-> Len(classes)]

\* save_all: item_counts, class name -> number of records to add.
ItemCounts(sv, classes) == [c \in Range(classes) |-> Len(sv[c])]

\* The class _save is working on.
cls == saving_classes[idx]

Ids(s) == {s[i].id : i \in 1..Len(s)}

\* The ids of the rows committed to the store.
StoredIds(store) == {r.id : r \in BagToSet(store)}

\* Records that left self.saving[c] in this save_all and are in no committed row.
Unwritten(c, store) == (Ids(before[c]) \ Ids(saving[c])) \ StoredIds(store)

\* save_all is called: the two comprehensions, then make_session().
SaveAllBegin ==
    /\ Idle
    /\ prevDone' = (pc = "done")
    /\ call' = Call("save_all", <<>>)
    /\ before' = saving
    /\ raised' = "none"
    /\ saving_classes' = NonEmptyClasses(saving)
    /\ reserved' = <<>>
    /\ idx' = 0
    /\ chunks' = <<>>
    /\ oneToOne' = TRUE
    /\ session' = [open |-> TRUE, rows |-> <<>>]
    /\ log' = <<Event("open", "-", <<>>, TRUE)>>
    /\ pc' = "reserve"
    /\ UNCHANGED << saving, nextId, db, lost >>

\* primary_key_generator.reserve(session, saving_classes, item_counts) returns
\* and the `with` block closes the session.
Reserve ==
    /\ pc = "reserve"
    /\ reserved' = Append(reserved, [classes |-> saving_classes,
                                     counts |-> ItemCounts(saving, saving_classes)])
    /\ log' = log \o <<Event("reserve", "-", <<>>, TRUE), Event("close", "-", <<>>, TRUE)>>
    /\ session' = NoSession
    /\ pc' = "loop"
    /\ UNCHANGED << saving, nextId, call, before, raised, prevDone,
                    saving_classes, idx, chunks, db, oneToOne, lost >>

\* reserve raises: the session is closed and save_all ends with the exception.
ReserveFails ==
    /\ pc = "reserve"
    /\ reserved' = Append(reserved, [classes |-> saving_classes,
                                     counts |-> ItemCounts(saving, saving_classes)])
    /\ log' = log \o <<Event("reserve", "-", <<>>, FALSE), Event("close", "-", <<>>, TRUE)>>
    /\ session' = NoSession
    /\ pc' = "failed"
    /\ UNCHANGED << saving, nextId, call, before, raised, prevDone,
                    saving_classes, idx, chunks, db, oneToOne, lost >>

\* _save(database, cls, pk_gen) up to its loop: consume empties the class's
\* list into prepare, the rows are sorted and split into groups.
SaveClass ==
    /\ pc = "loop"
    /\ idx < Len(saving_classes)
    /\ LET c == saving_classes[idx + 1]
           taken == Consume(saving[c])
       IN  \E keep \in KeepSets(Len(taken.yielded)) :
             LET items == SortedByKeys(Prepare(taken.yielded, keep))
             IN  /\ saving' = [saving EXCEPT ![c] = taken.rest]
                 /\ chunks' = Chunks(items)
                 /\ log' = Append(log, Event("prepare", c, items, TRUE))
                 /\ oneToOne' = (oneToOne /\ Len(items) = Len(taken.yielded))
                 /\ pc' = IF Chunks(items) = <<>> THEN "loop" ELSE "chunk"
    /\ idx' = idx + 1
    /\ UNCHANGED << nextId, call, before, raised, prevDone, saving_classes,
                    reserved, session, db, lost >>

\* _save's loop: database.make_session() for the next group.
OpenSession ==
    /\ pc = "chunk"
    /\ session' = [open |-> TRUE, rows |-> <<>>]
    /\ log' = Append(log, Event("open", cls, <<>>, TRUE))
    /\ pc' = "insert"
    /\ UNCHANGED << saving, nextId, call, before, raised, prevDone,
                    saving_classes, reserved, idx, chunks, db, oneToOne, lost >>

\* session.bulk_insert_mappings(cls, group, render_nulls=True)
BulkInsert ==
    /\ pc = "insert"
    /\ session' = [session EXCEPT !.rows = @ \o Head(chunks)]
    /\ log' = Append(log, Event("insert", cls, Head(chunks), TRUE))
    /\ pc' = "commit"
    /\ UNCHANGED << saving, nextId, call, before, raised, prevDone,
                    saving_classes, reserved, idx, chunks, db, oneToOne, lost >>

\* bulk_insert_mappings raises: the session is closed with nothing committed.
BulkInsertFails ==
    /\ pc = "insert"
    /\ session' = NoSession
    /\ log' = log \o <<Event("insert", cls, Head(chunks), FALSE),
                       Event("close", cls, <<>>, TRUE)>>
    /\ lost' = lost \cup Unwritten(cls, db)
    /\ pc' = "failed"
    /\ UNCHANGED << saving, nextId, call, before, raised, prevDone,
                    saving_classes, reserved, idx, chunks, db, oneToOne >>

\* The rows of a session as rows of the class's table, each known by its id.
RECURSIVE Stored(_, _)
Stored(c, rows) ==
    IF rows = <<>> THEN EmptyBag
    ELSE SetToBag({[cls |-> c, id |-> Head(rows).id]})
            (+) Stored(c, Tail(rows))

\* session.commit(), then the `with` block closes the session.
Commit ==
    /\ pc = "commit"
    /\ db' = db (+) Stored(cls, session.rows)
    /\ session' = NoSession
    /\ log' = log \o <<Event("commit", cls, <<>>, TRUE), Event("close", cls, <<>>, TRUE)>>
    /\ chunks' = Tail(chunks)
    /\ pc' = IF Tail(chunks) = <<>> THEN "loop" ELSE "chunk"
    /\ UNCHANGED << saving, nextId, call, before, raised, prevDone,
                    saving_classes, reserved, idx, oneToOne, lost >>

\* commit raises: the session is closed with nothing committed.
CommitFails ==
    /\ pc = "commit"
    /\ session' = NoSession
    /\ log' = log \o <<Event("commit", cls, <<>>, FALSE), Event("close", cls, <<>>, TRUE)>>
    /\ lost' = lost \cup Unwritten(cls, db)
    /\ pc' = "failed"
    /\ UNCHANGED << saving, nextId, call, before, raised, prevDone,
                    saving_classes, reserved, idx, chunks, db, oneToOne >>

\* save_all's loop is over: save_all returns.
SaveAllReturn ==
    /\ pc = "loop"
    /\ idx = Len(saving_classes)
    /\ pc' = "done"
    /\ UNCHANGED << saving, nextId, call, before, raised, prevDone,
                    saving_classes, reserved, idx, chunks, session, db, log,
                    oneToOne, lost >>

Next ==
    \/ Add
    \/ AddAll
    \/ SaveAllBegin
    \/ Reserve
    \/ ReserveFails
    \/ SaveClass
    \/ OpenSession
    \/ BulkInsert
    \/ BulkInsertFails
    \/ Commit
    \/ CommitFails
    \/ SaveAllReturn

Spec == Init /\ [][Next]_vars

\* ------------------------------------------------------ reading the log
InSaveAll == call.op = "save_all"

Pending(c) == before[c] # <<>>

Before(a, b) == OrderIndex[a] < OrderIndex[b]

InsertAt(j, c) == log[j].op = "insert" /\ log[j].cls = c

CommittedAt(j) ==
    /\ log[j].op = "insert" /\ log[j].ok
    /\ j < Len(log)
    /\ log[j + 1].op = "commit" /\ log[j + 1].ok

\* The rows of the bulk inserts of class c among log[i..n], in order.
RECURSIVE InsertedRows(_, _, _)
InsertedRows(c, i, n) ==
    IF i > n THEN <<>>
    ELSE (IF InsertAt(i, c) THEN log[i].rows ELSE <<>>) \o InsertedRows(c, i + 1, n)

\* The rows of the committed bulk inserts of class c among log[i..n], in order.
RECURSIVE CommittedRows(_, _, _)
CommittedRows(c, i, n) ==
    IF i > n THEN <<>>
    ELSE (IF InsertAt(i, c) /\ CommittedAt(i) /\ i + 1 <= n THEN log[i].rows ELSE <<>>)
            \o CommittedRows(c, i + 1, n)

CountOp(op, n) == Cardinality({i \in 1..n : log[i].op = op})

CountId(s, id) == Cardinality({i \in 1..Len(s) : s[i].id = id})

\* ---------------------------------------------------------------- C1
\* C1: save_all saves the classes in the order of SAVING_CLASSES_ORDER: when a
\* bulk insert of class B is issued, every class A before B that had records
\* when save_all was called has been prepared and all its rows are inserted
\* and committed, and no insert of A follows.
C1_SavedInClassOrder ==
    InSaveAll =>
        \A j \in 1..Len(log) :
            (log[j].op = "insert" /\ Pending(log[j].cls)) =>
                \A a \in SavingClasses :
                    (Pending(a) /\ Before(a, log[j].cls)) =>
                        /\ \E p \in 1..(j - 1) :
                              /\ log[p].op = "prepare"
                              /\ log[p].cls = a
                              /\ CommittedRows(a, 1, j - 1) = log[p].rows
                        /\ \A i \in (j + 1)..Len(log) : ~InsertAt(i, a)

\* Two classes were saved, the later one registered first.
C1_Witness ==
    /\ pc = "done"
    /\ Len(before["SharedText"]) = 2
    /\ Len(before["Issue"]) = 1
    /\ before["Issue"][1].id < before["SharedText"][1].id
    /\ Len(InsertedRows("SharedText", 1, Len(log))) = 2
    /\ Len(InsertedRows("Issue", 1, Len(log))) = 1

\* ---------------------------------------------------------------- C2
\* C2: in a save_all, reserve is called once, in a session that is closed
\* before the first bulk insert, with the counts of the records each class
\* held when save_all was called.
C2_ReservedOnceBeforeInserts ==
    InSaveAll =>
        /\ Len(reserved) = (IF pc = "reserve" THEN 0 ELSE 1)
        /\ CountOp("reserve", Len(log)) = Len(reserved)
        /\ \A j \in 1..Len(log) :
              log[j].op = "insert" =>
                 /\ log[1].op = "open"
                 /\ log[2].op = "reserve" /\ log[2].ok
                 /\ log[3].op = "close"
                 /\ 3 < j
        /\ \A r \in 1..Len(reserved) : \A c \in SavingClasses :
              /\ Pending(c) => c \in DOMAIN reserved[r].counts
              /\ c \in DOMAIN reserved[r].counts
                    => reserved[r].counts[c] = Len(before[c])

\* A save_all that reserved keys for two records of a class and inserted them.
C2_Witness ==
    /\ pc = "done"
    /\ Len(reserved) = 1
    /\ "Issue" \in DOMAIN reserved[1].counts
    /\ reserved[1].counts["Issue"] = 2
    /\ Len(InsertedRows("Issue", 1, Len(log))) = 2

\* ---------------------------------------------------------------- C3
\* From log[i] on, with a session open or not before it: a session is opened
\* only when none is open, reserve, insert, commit and close happen in an open
\* session, and the log ends with the session open or closed as it is now.
RECURSIVE OneSessionAtATime(_, _)
OneSessionAtATime(i, open) ==
    IF i > Len(log) THEN open = session.open
    ELSE IF log[i].op = "open" THEN ~open /\ OneSessionAtATime(i + 1, TRUE)
    ELSE IF log[i].op = "close" THEN open /\ OneSessionAtATime(i + 1, FALSE)
    ELSE IF log[i].op = "prepare" THEN OneSessionAtATime(i + 1, open)
    ELSE open /\ OneSessionAtATime(i + 1, open)

\* C3: every bulk insert carries 1..BATCH_SIZE rows, all of them rows prepared
\* for its class, and exactly BATCH_SIZE when another insert of the class
\* follows; it is the only insert of a session opened just before it, while
\* no other session is open, and a successful insert is followed by the
\* commit and the close of that session.
C3_ChunksInOwnSessions ==
    InSaveAll =>
        /\ \A j \in 1..Len(log) :
              log[j].op = "insert" =>
                 /\ Len(log[j].rows) >= 1
                 /\ Len(log[j].rows) <= BATCH_SIZE
                 /\ (\E i \in (j + 1)..Len(log) : InsertAt(i, log[j].cls))
                       => Len(log[j].rows) = BATCH_SIZE
                 /\ \E p \in 1..(j - 1) :
                       /\ log[p].op = "prepare" /\ log[p].cls = log[j].cls
                       /\ Ids(log[j].rows) \subseteq Ids(log[p].rows)
                 /\ log[j - 1].op = "open"
                 /\ (log[j].ok /\ j < Len(log)) => log[j + 1].op = "commit"
                 /\ (~log[j].ok) => (j < Len(log) /\ log[j + 1].op = "close")
        /\ \A j \in 1..Len(log) :
              log[j].op = "commit" =>
                 /\ log[j - 1].op = "insert"
                 /\ j < Len(log) /\ log[j + 1].op = "close"
        /\ OneSessionAtATime(1, FALSE)

\* A class saved in two groups: a full one, then a shorter one, both committed.
C3_Witness ==
    /\ pc = "done"
    /\ \E i, j \in 1..Len(log) :
          /\ i < j
          /\ InsertAt(i, "SharedText") /\ InsertAt(j, "SharedText")
          /\ CommittedAt(i) /\ CommittedAt(j)
          /\ Len(log[i].rows) = BATCH_SIZE
          /\ Len(log[j].rows) < BATCH_SIZE

\* ---------------------------------------------------------------- C4
\* C4: every record held in the accumulator is in the list of its own class
\* (item.model), whatever lists were passed to add_all.
C4_GroupedByModel ==
    \A c \in SavingClasses : \A i \in 1..Len(saving[c]) : saving[c][i].model = c

\* ---------------------------------------------------------------- C5
\* C5: when save_all has returned and every prepare of it yielded one row per
\* record, then for each class the rows bulk-inserted (all of them committed)
\* are, one for one, the records the class's list held when save_all was
\* called: each such record once, and nothing else.
C5_EveryRecordInsertedOnce ==
    (pc = "done" /\ oneToOne) =>
        \A c \in SavingClasses :
            /\ InsertedRows(c, 1, Len(log)) = CommittedRows(c, 1, Len(log))
            /\ \A id \in 1..MaxItems :
                  CountId(InsertedRows(c, 1, Len(log)), id) = CountId(before[c], id)
            /\ \A i \in 1..Len(before[c]) :
                  CopiesIn([cls |-> c, id |-> before[c][i].id], db) = 1

\* A save_all that wrote three records of two classes, in three groups.
C5_Witness ==
    /\ pc = "done"
    /\ oneToOne
    /\ Len(before["SharedText"]) = 1
    /\ Len(before["Issue"]) = 2
    /\ Len(InsertedRows("SharedText", 1, Len(log))) = 1
    /\ Len(InsertedRows("Issue", 1, Len(log))) = 2
    /\ BagCardinality(db) = 3

\* ---------------------------------------------------------------- C6
KeysOrdered(s) ==
    /\ \A i \in 1..(Len(s) - 1) : ~ListLess(s[i + 1].keys, s[i].keys)
    /\ \A i, j, k \in 1..Len(s) :
          (i < j /\ j < k /\ s[i].keys = s[k].keys) => s[j].keys = s[i].keys

\* C6: for each class, the rows of its bulk inserts, taken in the order of the
\* inserts, have non-decreasing key lists, and the rows with the same key list
\* are next to each other.
C6_RowsSortedByKeys ==
    InSaveAll =>
        \A c \in {log[j].cls : j \in {i \in 1..Len(log) : log[i].op = "insert"}} :
            LET rows == InsertedRows(c, 1, Len(log)) IN KeysOrdered(rows)

\* Three rows of a class inserted in two groups, in another order than the
\* records were registered in, and than consume yields them in.
C6_Witness ==
    /\ pc = "done"
    /\ LET rows == InsertedRows("SharedText", 1, Len(log))
           recs == before["SharedText"]
       IN  /\ Len(rows) = 3 /\ Len(recs) = 3
           /\ rows[1].keys # rows[3].keys
           /\ <<rows[1].id, rows[2].id, rows[3].id>> # <<recs[1].id, recs[2].id, recs[3].id>>
           /\ <<rows[1].id, rows[2].id, rows[3].id>> # <<recs[3].id, recs[2].id, recs[1].id>>

\* ---------------------------------------------------------------- C7
\* C7: add of a record whose class is not in SAVING_CLASSES_ORDER, and add_all
\* of a non-empty list whose first record's class is not, end with an
\* AssertionError and leave every list as it was; add_all of the empty list
\* ends normally and leaves every list as it was.
C7_UnknownClassRejected ==
    /\ (call.op = "add" /\ call.first \notin SavingClasses)
          => (raised = "AssertionError" /\ saving = before)
    /\ (call.op = "add_all" /\ call.n > 0 /\ call.first \notin SavingClasses)
          => (raised = "AssertionError" /\ saving = before)
    /\ (call.op = "add_all" /\ call.n = 0)
          => (raised = "none" /\ saving = before)

\* add_all of a list that starts with a record of an unknown class was refused
\* while the accumulator held records.
C7_Witness ==
    /\ call.op = "add_all"
    /\ call.n = 2
    /\ call.first = OtherClass
    /\ raised = "AssertionError"
    /\ saving["Issue"] # <<>>
    /\ saving = before

\* ---------------------------------------------------------------- C8
\* C8: after a save_all that returned, every list is empty and dump_stats
\* reports 0 for every class; a save_all that directly follows one that
\* returned prepares and inserts nothing; and no row is committed twice.
C8_FlushDrains ==
    /\ pc = "done" =>
          /\ \A c \in SavingClasses : saving[c] = <<>>
          /\ \A i \in 1..Len(dump_stats) : dump_stats[i][2] = 0
    /\ (InSaveAll /\ prevDone) =>
          \A j \in 1..Len(log) : log[j].op \notin {"prepare", "insert", "commit"}
    /\ \A r \in BagToSet(db) : CopiesIn(r, db) = 1
    /\ \A r1, r2 \in BagToSet(db) : r1.id = r2.id => r1 = r2

\* A second save_all returned right after a first one that had written rows.
C8_Witness ==
    /\ pc = "done"
    /\ prevDone
    /\ BagCardinality(db) = 3
    /\ Len(log) = 3

\* ---------------------------------------------------------------- C9
\* The position of the last bulk insert in the log.
LastInsert ==
    CHOOSE j \in 1..Len(log) :
        /\ log[j].op = "insert"
        /\ \A i \in (j + 1)..Len(log) : log[i].op # "insert"

\* C9: when save_all ends with the exception of a bulk insert or commit of
\* class K, (1) the rows of every class before K that had records, and the
\* rows of K's earlier groups, are committed; (2) no call was made for a class
\* after K and its list is as it was when save_all was called; (3) K's list
\* is empty, and the records that left the accumulator without being
\* committed are never committed afterwards.
C9_NoRecoveryFromFailedChunk ==
    /\ (pc = "failed" /\ idx > 0) =>
          /\ \A a \in SavingClasses :
                (Pending(a) /\ Before(a, cls)) =>
                    \E p \in 1..Len(log) :
                        /\ log[p].op = "prepare" /\ log[p].cls = a
                        /\ CommittedRows(a, 1, Len(log)) = log[p].rows
                        /\ Ids(log[p].rows) \subseteq StoredIds(db)
          /\ Ids(CommittedRows(cls, 1, Len(log))) \subseteq StoredIds(db)
          /\ CommittedRows(cls, 1, Len(log)) = InsertedRows(cls, 1, LastInsert - 1)
          /\ log[LastInsert].cls = cls
          /\ ~CommittedAt(LastInsert)
          /\ \A b \in SavingClasses :
                Before(cls, b) =>
                    /\ \A j \in 1..Len(log) : log[j].cls # b
                    /\ saving[b] = before[b]
                    /\ Ids(before[b]) \cap StoredIds(db) = {}
          /\ saving[cls] = <<>>
          /\ Unwritten(cls, db) # {}
          /\ Unwritten(cls, db) \subseteq lost
    /\ lost \cap StoredIds(db) = {}
    /\ lost # {} => \A c \in SavingClasses : lost \cap Ids(saving[c]) = {}

\* A save_all failed in a group of SharedText while Issue had a record; the
\* next save_all returned and wrote the Issue record, not the lost ones.
C9_Witness ==
    /\ pc = "done"
    /\ ~prevDone
    /\ before["SharedText"] = <<>>
    /\ Len(before["Issue"]) = 1
    /\ before["Issue"][1].id = 1
    /\ lost = {2, 3}
    /\ StoredIds(db) = {1}
    /\ \A r \in BagToSet(db) : r.cls = "Issue"

\* ---------------------------------------------------------------- C10
\* C10: a class whose list is empty when save_all is called is in neither the
\* classes nor the counts given to reserve, and no prepare, session or insert
\* is made for it; reserve is still called once, also when every list is
\* empty.
C10_EmptyClassesSkipped ==
    InSaveAll =>
        /\ \A j \in 1..Len(log) : log[j].cls # "-" => Pending(log[j].cls)
        /\ \A r \in 1..Len(reserved) :
              /\ \A c \in Range(reserved[r].classes) : Pending(c)
              /\ \A c \in DOMAIN reserved[r].counts : Pending(c)
        /\ CountOp("open", Len(log)) <= 1 + CountOp("insert", Len(log))
                                           + (IF pc = "insert" THEN 1 ELSE 0)
        /\ pc # "reserve" =>
              /\ Len(reserved) = 1
              /\ CountOp("reserve", Len(log)) = 1

\* A save_all with every list empty returned after its one reserve call.
C10_Witness ==
    /\ pc = "done"
    /\ \A c \in SavingClasses : ~Pending(c)
    /\ Len(reserved) = 1
    /\ reserved[1].classes = <<>>
    /\ DOMAIN reserved[1].counts = {}
    /\ CountOp("reserve", Len(log)) = 1
    /\ Len(log) = 3

====
